---- MODULE Spec2Model ----
(***************************************************************************)
(* Model of ProjectTwo.cpp: the course hash table (fixed array of head     *)
(* nodes with singly linked overflow chains), its CSV load pass, the file  *)
(* validation pass, the Quicksort used for the ordered listing, and main's *)
(* menu loop.                                                              *)
(*                                                                         *)
(* Strings (std::string) are sequences of character codes.  A pointer to   *)
(* a Node is an integer: NULL, a heap address 1..Len(heap) for a node made *)
(* by `new`, or -(k+1) for the address of the head node m_nodes.at(k).     *)
(***************************************************************************)
EXTENDS Integers, Sequences, FiniteSets, Bags, TLC

VARIABLES
    file,         \* the file at `path`: [open, data]; data is its byte sequence
    pc,           \* where the program is
    num_courses,  \* main's num_courses (result of ValidateFile)
    m_size,       \* HashTable::m_size
    m_nodes,      \* HashTable::m_nodes, a function 0..m_size-1 -> Node
    heap,         \* the nodes allocated by `new Node`, by address
    freed,        \* the addresses released by `delete`
    fault,        \* "none", or the fault that ended the program
    out,          \* the last operation, its argument and what it returned
    inserted,     \* history: the bag of courses passed to insert
    removes,      \* history: number of remove calls made
    loads         \* number of load passes made (menu choice 1)

vars == <<file, pc, num_courses, m_size, m_nodes, heap, freed, fault, out,
          inserted, removes, loads>>

-----------------------------------------------------------------------------
(* Bounds of the model *)

MaxSize == 2        \* largest table size the table harness constructs
MaxInserts == 2     \* insert calls per run of the table harness
MaxBuild == 3       \* insert calls per run of the build-only harness
MaxRemoves == 1     \* remove calls per run of the table harness
MaxFileLen == 9     \* bytes in the input file
MaxLoads == 2       \* load passes per run of main
MaxLineLen == 6     \* characters of a line given to the load pass alone
MaxChain == 5       \* records inserted into the one-slot table
MaxKeyLen == 7      \* characters of a key given to hash alone
MaxHashSize == 3    \* slots of the table whose hash is called alone
MaxSortLen == 4     \* records of a sequence given to Quicksort alone

(* Program constants *)

NULL == 0           \* nullptr
UINT_MAX == -1      \* (unsigned int) -1, the "no key" sentinel
ROW_DEL == 10       \* '\n'
COL_DEL == 44       \* ','

-----------------------------------------------------------------------------
(* Course and Node *)

Course(number, title, prerequisites) ==
    [number |-> number, title |-> title, prerequisites |-> prerequisites]

\* Course {} : all members default-constructed
EmptyCourse == Course(<<>>, <<>>, <<>>)

Node(t_course, t_key) == [course |-> t_course, key |-> t_key, next |-> NULL]

\* Node() : key = UINT_MAX, next = nullptr
EmptyNode == Node(EmptyCourse, UINT_MAX)

\* The table's memory as one value: the head array, the heap, the released
\* addresses and the fault raised so far.
Mem(nodes, hp, fr) == [nodes |-> nodes, heap |-> hp, freed |-> fr, fault |-> "none"]

HeadPtr(key) == 0 - (key + 1)

Deref(mem, p) == IF p < 0 THEN mem.nodes[0 - p - 1] ELSE mem.heap[p]

\* p->next = v
SetNext(mem, p, v) ==
    IF p < 0 THEN [mem EXCEPT !.nodes[0 - p - 1].next = v]
             ELSE [mem EXCEPT !.heap[p].next = v]

\* delete p
delete(mem, p) ==
    IF p \in mem.freed THEN [mem EXCEPT !.fault = "double_free"]
                       ELSE [mem EXCEPT !.freed = @ \cup {p}]

-----------------------------------------------------------------------------
(* HashTable::hash *)

RECURSIVE pow(_, _)
pow(b, e) == IF e = 0 THEN 1 ELSE b * pow(b, e - 1)

\* static_cast<int>(pow(31, i)) as a 32-bit pattern <<high 16 bits, low 16 bits>>.
\* 31^i fits an int up to i = 6; beyond that the conversion is out of range and
\* the x86-64 conversion instruction yields the pattern 0x80000000.
pow31(i) ==
    IF i <= 6 THEN <<pow(31, i) \div 65536, pow(31, i) % 65536>>
              ELSE <<32768, 0>>

\* (key[i] * static_cast<int>(pow(31, i))) % m_size : the int product, kept to
\* 32 bits, is converted to unsigned int for the modulo by m_size.
term(c, i) ==
    LET p  == pow31(i)
        lo == c * p[2]
        hi == ((c * p[1]) + (lo \div 65536)) % 65536
    IN  (((hi % m_size) * (65536 % m_size)) + (lo % 65536)) % m_size

RECURSIVE hashLoop(_, _, _)
hashLoop(key, i, sum) ==
    IF i >= Len(key) THEN sum
    ELSE hashLoop(key, i + 1, sum + term(key[i + 1], i))

\* `sum` is the value the uninitialised accumulator `size_t sum;` holds when
\* the loop starts (line 164).  Requires m_size > 0.  As `sum` ranges over
\* Garbage the result ranges over every slot, which also covers whatever an
\* overflowing product or an out-of-range conversion in a term evaluates to.
hash(key, sum) == hashLoop(key, 0, sum) % m_size

\* The values an uninitialised accumulator can hold, up to congruence mod m_size.
Garbage == 0 .. (m_size - 1)

-----------------------------------------------------------------------------
(* HashTable::insert *)

RECURSIVE lastNode(_, _)
lastNode(mem, p) ==
    IF Deref(mem, p).next = NULL THEN p ELSE lastNode(mem, Deref(mem, p).next)

\* An insert that replaces the head of the slot when it carries the number
insert_replacesHead(mem, course, sum) ==
    LET key == hash(course.number, sum) IN
    IF mem.nodes[key].key = UINT_MAX
    THEN [mem EXCEPT !.nodes[key] = Node(course, key)]
    ELSE IF mem.nodes[key].course.number = course.number
         THEN [mem EXCEPT !.nodes[key].course = course]
         ELSE LET cur_node == lastNode(mem, HeadPtr(key))
                  fresh    == Len(mem.heap) + 1
              IN  SetNext([mem EXCEPT !.heap = Append(@, Node(course, key))],
                          cur_node, fresh)

insert(mem, course, sum) ==
    LET key == hash(course.number, sum) IN
    IF mem.nodes[key].key = UINT_MAX
    THEN [mem EXCEPT !.nodes[key] = Node(course, key)]
    ELSE LET cur_node == lastNode(mem, HeadPtr(key))
             fresh    == Len(mem.heap) + 1
         IN  SetNext([mem EXCEPT !.heap = Append(@, Node(course, key))],
                     cur_node, fresh)

-----------------------------------------------------------------------------
(* HashTable::toVector *)

RECURSIVE chainCourses(_, _)
chainCourses(mem, p) ==
    IF p = NULL THEN <<>>
    ELSE <<mem.heap[p].course>> \o chainCourses(mem, mem.heap[p].next)

\* A toVector that emits the head of each slot and forgets its chain
slotCourses_headOnly(mem, k) ==
    IF mem.nodes[k].key # UINT_MAX THEN <<mem.nodes[k].course>> ELSE <<>>

\* A toVector that emits the chain of each slot before its head
slotCourses_chainFirst(mem, k) ==
    IF mem.nodes[k].key # UINT_MAX
    THEN chainCourses(mem, mem.nodes[k].next) \o <<mem.nodes[k].course>>
    ELSE <<>>

slotCourses(mem, k) ==
    LET head == mem.nodes[k] IN
    IF head.key # UINT_MAX
    THEN <<head.course>> \o chainCourses(mem, head.next)
    ELSE <<>>

RECURSIVE toVectorFrom(_, _)
toVectorFrom(mem, k) ==
    IF k >= m_size THEN <<>>
    ELSE slotCourses(mem, k) \o toVectorFrom(mem, k + 1)

toVector(mem) == toVectorFrom(mem, 0)

-----------------------------------------------------------------------------
(* HashTable::search *)

RECURSIVE searchChain(_, _, _)
searchChain(mem, cur_node, course_number) ==
    IF cur_node = NULL THEN EmptyCourse
    ELSE IF mem.heap[cur_node].course.number = course_number
         THEN mem.heap[cur_node].course
         ELSE searchChain(mem, mem.heap[cur_node].next, course_number)

search(mem, course_number, sum) ==
    LET head == mem.nodes[hash(course_number, sum)] IN
    IF head.key # UINT_MAX
    THEN IF head.course.number = course_number
         THEN head.course
         ELSE searchChain(mem, head.next, course_number)
    ELSE EmptyCourse

-----------------------------------------------------------------------------
(* HashTable::remove *)

\* The loop of lines 239-247.  Its condition reads cur_node->next, so it
\* faults when cur_node is null, which is what cur_node becomes on line 246
\* after the last node of the chain has been unlinked and deleted.
RECURSIVE removeLoop(_, _, _)
removeLoop(mem, cur_node, course_number) ==
    IF cur_node = NULL THEN [mem EXCEPT !.fault = "null_dereference"]
    ELSE IF cur_node \in mem.freed THEN [mem EXCEPT !.fault = "use_after_free"]
    ELSE LET temp == Deref(mem, cur_node).next IN
         IF temp = NULL THEN mem
         ELSE IF mem.heap[temp].course.number = course_number
              THEN removeLoop(delete(SetNext(mem, cur_node, mem.heap[temp].next), temp),
                              mem.heap[temp].next, course_number)
              ELSE removeLoop(mem, temp, course_number)

\* A remove that takes the head of the slot without comparing its number
remove_anyHead(mem, course_number, sum) ==
    LET key  == hash(course_number, sum)
        head == mem.nodes[key]
    IN  IF head.key # UINT_MAX
        THEN IF head.next # NULL
             THEN [mem EXCEPT !.nodes[key] = mem.heap[head.next]]
             ELSE [mem EXCEPT !.nodes[key] = EmptyNode]
        ELSE mem

\* A remove that promotes the first chain record by copying its course into
\* the head and leaves the head's link as it was
remove_copiesCourseOnly(mem, course_number, sum) ==
    LET key  == hash(course_number, sum)
        head == mem.nodes[key]
    IN  IF head.key # UINT_MAX
        THEN IF head.course.number = course_number
             THEN IF head.next # NULL
                  THEN [mem EXCEPT !.nodes[key].course = mem.heap[head.next].course]
                  ELSE [mem EXCEPT !.nodes[key] = EmptyNode]
             ELSE removeLoop(mem, HeadPtr(key), course_number)
        ELSE mem

\* A remove that leaves a head without a chain in place
remove_keepsLoneHead(mem, course_number, sum) ==
    LET key  == hash(course_number, sum)
        head == mem.nodes[key]
    IN  IF head.key # UINT_MAX
        THEN IF head.course.number = course_number
             THEN IF head.next # NULL
                  THEN [mem EXCEPT !.nodes[key] = mem.heap[head.next]]
                  ELSE mem
             ELSE removeLoop(mem, HeadPtr(key), course_number)
        ELSE mem

remove(mem, course_number, sum) ==
    LET key  == hash(course_number, sum)
        head == mem.nodes[key]
    IN  IF head.key # UINT_MAX
        THEN IF head.course.number = course_number
             THEN IF head.next # NULL
                  THEN [mem EXCEPT !.nodes[key] = mem.heap[head.next]]
                  ELSE [mem EXCEPT !.nodes[key] = EmptyNode]
             ELSE removeLoop(mem, HeadPtr(key), course_number)
        ELSE mem

-----------------------------------------------------------------------------
(* HashTable::~HashTable *)

\* lines 92-98, entered with cur_node = head.next, not null
RECURSIVE deleteChain(_, _)
deleteChain(mem, cur_node) ==
    IF cur_node \in mem.freed THEN [mem EXCEPT !.fault = "use_after_free"]
    ELSE IF mem.heap[cur_node].next # NULL
         THEN deleteChain(delete(mem, cur_node), mem.heap[cur_node].next)
         ELSE delete(mem, cur_node)

RECURSIVE destroyFrom(_, _)
destroyFrom(mem, k) ==
    IF k >= m_size \/ mem.fault # "none" THEN mem
    ELSE LET head == mem.nodes[k] IN
         destroyFrom(IF head.key # UINT_MAX /\ head.next # NULL
                     THEN deleteChain(mem, head.next)
                     ELSE mem,
                     k + 1)

\* m_nodes.clear() ends it
destructor(mem) == [destroyFrom(mem, 0) EXCEPT !.nodes = [k \in {} |-> EmptyNode]]

-----------------------------------------------------------------------------
(* Quicksort *)

\* a.compare(b): negative, zero or positive, by the first differing character
RECURSIVE compare(_, _)
compare(a, b) ==
    IF a = <<>> /\ b = <<>> THEN 0
    ELSE IF a = <<>> THEN -1
    ELSE IF b = <<>> THEN 1
    ELSE IF a[1] < b[1] THEN -1
    ELSE IF a[1] > b[1] THEN 1
    ELSE compare(Tail(a), Tail(b))

\* courses->at(i) throws std::out_of_range unless 0 <= i < size
InRange(courses, i) == 0 <= i /\ i < Len(courses)
at(courses, i) == courses[i + 1]

\* lines 288-290; ok is FALSE when at(low) throws
RECURSIVE scanLow(_, _, _)
scanLow(courses, low, pivot) ==
    IF ~InRange(courses, low) THEN [ok |-> FALSE, i |-> low]
    ELSE IF compare(at(courses, low).number, pivot) < 0
         THEN scanLow(courses, low + 1, pivot)
         ELSE [ok |-> TRUE, i |-> low]

\* lines 292-294
RECURSIVE scanHigh(_, _, _)
scanHigh(courses, high, pivot) ==
    IF ~InRange(courses, high) THEN [ok |-> FALSE, i |-> high]
    ELSE IF compare(pivot, at(courses, high).number) < 0
         THEN scanHigh(courses, high - 1, pivot)
         ELSE [ok |-> TRUE, i |-> high]

\* A swap without the temporary: at(high) receives what at(low) has just been
\* given
swap_withoutTemp(courses, i, j) ==
    [courses EXCEPT ![i + 1] = courses[j + 1]]

swap(courses, i, j) ==
    [courses EXCEPT ![i + 1] = courses[j + 1], ![j + 1] = courses[i + 1]]

\* lines 286-307
RECURSIVE partitionLoop(_, _, _, _)
partitionLoop(courses, low, high, pivot) ==
    LET l == scanLow(courses, low, pivot) IN
    IF ~l.ok THEN [courses |-> courses, high |-> high, fault |-> "out_of_range"]
    ELSE LET h == scanHigh(courses, high, pivot) IN
         IF ~h.ok THEN [courses |-> courses, high |-> high, fault |-> "out_of_range"]
         ELSE IF l.i >= h.i
              THEN [courses |-> courses, high |-> h.i, fault |-> "none"]
              ELSE partitionLoop(swap(courses, l.i, h.i), l.i + 1, h.i - 1, pivot)

\* the lambda of lines 281-309
partition(courses, low, high) ==
    LET midpoint == low + ((high - low) \div 2) IN
    IF ~InRange(courses, midpoint)
    THEN [courses |-> courses, high |-> high, fault |-> "out_of_range"]
    ELSE partitionLoop(courses, low, high, at(courses, midpoint).number)

RECURSIVE Quicksort(_, _, _)
Quicksort(courses, lowIndex, highIndex) ==
    IF lowIndex >= highIndex THEN [courses |-> courses, fault |-> "none"]
    ELSE LET p == partition(courses, lowIndex, highIndex) IN
         IF p.fault # "none" THEN [courses |-> p.courses, fault |-> p.fault]
         ELSE LET lowPart == Quicksort(p.courses, lowIndex, p.high) IN
              IF lowPart.fault # "none" THEN lowPart
              ELSE Quicksort(lowPart.courses, p.high + 1, highIndex)

\* main, lines 420-421: Quicksort(&courses, 0, courses.size() - 1); the
\* size_t value size() - 1 converted to int is -1 for the empty vector
listSorted(mem) ==
    LET courses == toVector(mem) IN Quicksort(courses, 0, Len(courses) - 1)

-----------------------------------------------------------------------------
(* The table harness: a HashTable of m_size >= 1 slots driven through its   *)
(* public interface with arbitrary calls, then destroyed.                   *)

\* The course numbers "A", "B" and "AB"
Numbers == {<<65>>, <<66>>, <<65, 66>>}

\* The courses the harness inserts: two share the number "A", and "AB" has
\* the empty title
Courses ==
    { Course(<<65>>, <<84>>, <<>>),
      Course(<<65>>, <<85>>, <<<<66>>>>),
      Course(<<66>>, <<84>>, <<<<65>>, <<65, 66>>>>),
      Course(<<65, 66>>, <<>>, <<>>) }

\* What an operation leaves in `out`
Out(op, arg, key, course, courses, hit, stored) ==
    [op |-> op, arg |-> arg, key |-> key, course |-> course,
     courses |-> courses, hit |-> hit, stored |-> stored]

CurrentMem == Mem(m_nodes, heap, freed)

\* The numbers of the records slot k holds / the table holds
slotNumbers(mem, k) ==
    {slotCourses(mem, k)[i].number : i \in 1 .. Len(slotCourses(mem, k))}
storedNumbers(mem) ==
    {toVector(mem)[i].number : i \in 1 .. Len(toVector(mem))}

\* The table becomes mem; a fault ends the program
Becomes(mem) ==
    /\ m_nodes' = mem.nodes
    /\ heap' = mem.heap
    /\ freed' = mem.freed
    /\ fault' = mem.fault
    /\ pc' = IF mem.fault = "none" THEN pc ELSE "crashed"

\* search and toVector are const member functions and Quicksort works on a
\* copy, so a query changes nothing but `out`: every state a query reaches
\* after another query it also reaches directly from that query's pre-state.
\* The harness therefore makes its queries right after a construction or a
\* mutation, which reaches the same set of states.
Fresh == out.op \notin {"search", "list", "unknown"}

TableInit ==
    /\ file = [open |-> FALSE, data |-> <<>>]
    /\ pc = "live"
    /\ num_courses = 0
    /\ m_size \in 1 .. MaxSize
    /\ m_nodes = [k \in 0 .. (m_size - 1) |-> EmptyNode]
    /\ heap = <<>>
    /\ freed = {}
    /\ fault = "none"
    /\ out = Out("construct", <<>>, UINT_MAX, EmptyCourse, <<>>, FALSE, FALSE)
    /\ inserted = EmptyBag
    /\ removes = 0
    /\ loads = 0

InsertCall(course, sum) ==
    /\ pc = "live"
    /\ Becomes(insert(CurrentMem, course, sum))
    /\ inserted' = inserted (+) SetToBag({course})
    /\ out' = Out("insert", course.number, UINT_MAX, course, <<>>, FALSE, FALSE)
    /\ UNCHANGED <<file, num_courses, m_size, removes, loads>>

Insert(course, sum) ==
    /\ BagCardinality(inserted) < MaxInserts
    /\ InsertCall(course, sum)

Remove(course_number, sum) ==
    /\ pc = "live"
    /\ removes < MaxRemoves
    /\ Becomes(remove(CurrentMem, course_number, sum))
    /\ removes' = removes + 1
    /\ out' = Out("remove", course_number, hash(course_number, sum), EmptyCourse, <<>>,
                  course_number \in slotNumbers(CurrentMem, hash(course_number, sum)),
                  course_number \in storedNumbers(CurrentMem))
    /\ UNCHANGED <<file, num_courses, m_size, inserted, loads>>

Search(course_number, sum) ==
    /\ pc = "live"
    /\ Fresh
    /\ out' = Out("search", course_number, hash(course_number, sum),
                  search(CurrentMem, course_number, sum), <<>>,
                  course_number \in slotNumbers(CurrentMem, hash(course_number, sum)),
                  course_number \in storedNumbers(CurrentMem))
    /\ UNCHANGED <<file, pc, num_courses, m_size, m_nodes, heap, freed, fault,
                   inserted, removes, loads>>

\* toVector, then Quicksort over the full index range
List ==
    /\ pc = "live"
    /\ Fresh
    /\ LET sorted == listSorted(CurrentMem) IN
       /\ out' = Out("list", <<>>, UINT_MAX, EmptyCourse, sorted.courses, FALSE, FALSE)
       /\ fault' = sorted.fault
       /\ pc' = IF sorted.fault = "none" THEN pc ELSE "crashed"
    /\ UNCHANGED <<file, num_courses, m_size, m_nodes, heap, freed,
                   inserted, removes, loads>>

Destroy ==
    /\ pc = "live"
    /\ LET mem == destructor(CurrentMem) IN
       /\ m_nodes' = mem.nodes
       /\ heap' = mem.heap
       /\ freed' = mem.freed
       /\ fault' = mem.fault
       /\ pc' = IF mem.fault = "none" THEN "destroyed" ELSE "crashed"
    /\ out' = Out("destroy", <<>>, UINT_MAX, EmptyCourse, <<>>, FALSE, FALSE)
    /\ UNCHANGED <<file, num_courses, m_size, inserted, removes, loads>>

TableNext ==
    \/ \E course \in Courses, sum \in Garbage : Insert(course, sum)
    \/ \E course_number \in Numbers, sum \in Garbage : Remove(course_number, sum)
    \/ \E course_number \in Numbers, sum \in Garbage : Search(course_number, sum)
    \/ List
    \/ Destroy

Spec == TableInit /\ [][TableNext]_vars

(* The build-only harness: the tables a sequence of inserts reaches, queried *)
(* and destroyed; no remove.                                                 *)

BuildInsert(course, sum) ==
    /\ BagCardinality(inserted) < MaxBuild
    /\ InsertCall(course, sum)

BuildNext ==
    \/ \E course \in Courses, sum \in Garbage : BuildInsert(course, sum)
    \/ \E course_number \in Numbers, sum \in Garbage : Search(course_number, sum)
    \/ List
    \/ Destroy

SpecBuild == TableInit /\ [][BuildNext]_vars

-----------------------------------------------------------------------------
(* Reading the file: std::getline, std::string::find and substr *)

\* The rows `while (getline(csv, row, ROW_DEL))` yields for a byte sequence:
\* the text before each '\n', and the text after the last one unless empty
RECURSIVE getlines(_)
getlines(data) ==
    IF data = <<>> THEN <<>>
    ELSE IF \E i \in 1 .. Len(data) : data[i] = ROW_DEL
         THEN LET i == CHOOSE i \in 1 .. Len(data) :
                          /\ data[i] = ROW_DEL
                          /\ \A j \in 1 .. (i - 1) : data[j] # ROW_DEL
              IN  <<SubSeq(data, 1, i - 1)>> \o getlines(SubSeq(data, i + 1, Len(data)))
         ELSE <<data>>

\* The rows read from the file; a file that cannot be opened yields none
rowsOf(f) == IF f.open THEN getlines(f.data) ELSE <<>>

\* std::string::npos converted to int
npos == 0 - 1

\* row.find(ch, start): zero-based index of the first ch at or after start
find(row, ch, start) ==
    IF \E i \in start .. (Len(row) - 1) : row[i + 1] = ch
    THEN CHOOSE i \in start .. (Len(row) - 1) :
             /\ row[i + 1] = ch
             /\ \A j \in start .. (i - 1) : row[j + 1] # ch
    ELSE npos

\* row.substr(pos, count), for pos <= row.length()
substr(row, pos, count) ==
    SubSeq(row, pos + 1, IF pos + count > Len(row) THEN Len(row) ELSE pos + count)

\* `start < row.length() - 1` (lines 148, 369): row.length() - 1 is unsigned,
\* so it is the largest size_t value for the empty row and the test succeeds
moreData(row, start) == IF Len(row) = 0 THEN TRUE ELSE start < Len(row) - 1

\* row.substr(start, row.length() - start - 1) (lines 149, 370): the rest of
\* the row without its last character; for the empty row the count wraps and
\* the result is the empty string
restOfRow(row, start) ==
    IF Len(row) = 0 THEN <<>> ELSE substr(row, start, Len(row) - start - 1)

-----------------------------------------------------------------------------
(* ValidateFile *)

\* The column loop of lines 347-366 on one row; st holds start, cur_field
\* and the two sets
RECURSIVE validateColumns(_, _)
validateColumns(row, st) ==
    LET end == find(row, COL_DEL, st.start) IN
    IF end = npos THEN st
    ELSE IF end - st.start = 0
         THEN validateColumns(row, [st EXCEPT !.start = end + 1])
         ELSE LET field == substr(row, st.start, end - st.start) IN
              validateColumns(row,
                  [start |-> end + 1,
                   cur_field |-> st.cur_field + 1,
                   courses |-> IF st.cur_field = 0 THEN st.courses \cup {field}
                                                   ELSE st.courses,
                   prerequisites |-> IF st.cur_field >= 2
                                     THEN st.prerequisites \cup {field}
                                     ELSE st.prerequisites])

\* The row loop of lines 341-378; acc holds the two sets and row_count, and
\* bad is set by the `return -1` of line 375
RECURSIVE validateRows(_, _, _)
validateRows(rows, r, acc) ==
    IF r > Len(rows) THEN acc
    ELSE LET row == rows[r]
             st  == validateColumns(row, [start |-> 0, cur_field |-> 0,
                                          courses |-> acc.courses,
                                          prerequisites |-> acc.prerequisites])
             prerequisites == IF moreData(row, st.start)
                              THEN st.prerequisites \cup {restOfRow(row, st.start)}
                              ELSE st.prerequisites
         IN  IF st.cur_field < 2
             THEN [acc EXCEPT !.bad = TRUE]
             ELSE validateRows(rows, r + 1,
                      [courses |-> st.courses, prerequisites |-> prerequisites,
                       row_count |-> acc.row_count + 1, bad |-> FALSE])

ValidateFile(f) ==
    LET acc == validateRows(rowsOf(f), 1,
                   [courses |-> {}, prerequisites |-> {}, row_count |-> 0, bad |-> FALSE])
    IN  IF acc.bad THEN -1
        ELSE IF \E course \in acc.prerequisites : course \notin acc.courses THEN -1
        ELSE acc.row_count

-----------------------------------------------------------------------------
(* HashTable::loadFromCSV *)

\* The column loop of lines 124-145 on one row
RECURSIVE loadColumns(_, _)
loadColumns(row, st) ==
    LET end == find(row, COL_DEL, st.start) IN
    IF end = npos THEN st
    ELSE IF end - st.start = 0
         THEN loadColumns(row, [st EXCEPT !.start = end + 1])
         ELSE LET field == substr(row, st.start, end - st.start) IN
              loadColumns(row,
                  [start |-> end + 1,
                   field_count |-> st.field_count + 1,
                   number |-> IF st.field_count = 0 THEN field ELSE st.number,
                   title |-> IF st.field_count = 1 THEN field ELSE st.title,
                   prerequisites |-> IF st.field_count >= 2
                                     THEN Append(st.prerequisites, field)
                                     ELSE st.prerequisites])

\* The record lines 117-152 build from one row
rowCourse(row) ==
    LET st == loadColumns(row, [start |-> 0, field_count |-> 0, number |-> <<>>,
                                title |-> <<>>, prerequisites |-> <<>>])
    IN  Course(st.number, st.title,
               IF moreData(row, st.start)
               THEN Append(st.prerequisites, restOfRow(row, st.start))
               ELSE st.prerequisites)

\* The records of a load pass, in row order
fileCourses(f) == [r \in 1 .. Len(rowsOf(f)) |-> rowCourse(rowsOf(f)[r])]

\* One insert per row; sums[r] is what the accumulator of hash holds in the
\* insert of row r
RECURSIVE loadRows(_, _, _, _)
loadRows(mem, courses, r, sums) ==
    IF r > Len(courses) THEN mem
    ELSE loadRows(insert(mem, courses[r], sums[r]), courses, r + 1, sums)

loadFromCSV(mem, f, sums) == loadRows(mem, fileCourses(f), 1, sums)

-----------------------------------------------------------------------------
(* main: validation, construction of the table and the menu loop *)

\* The bytes of the model's files: 'A', ',' and '\n'
Alphabet == {65, COL_DEL, ROW_DEL}

\* "CS101,Intro,CS100\nCS100,Basics\n"
ExampleFile ==
    <<67, 83, 49, 48, 49, 44, 73, 110, 116, 114, 111, 44, 67, 83, 49, 48, 48, 10,
      67, 83, 49, 48, 48, 44, 66, 97, 115, 105, 99, 115, 10>>

\* "CS101,Intro,CS100,\nCS100,Basics,\n": the example file with a comma
\* behind the last field of each row
CatalogFile ==
    <<67, 83, 49, 48, 49, 44, 73, 110, 116, 114, 111, 44, 67, 83, 49, 48, 48, 44, 10,
      67, 83, 49, 48, 48, 44, 66, 97, 115, 105, 99, 115, 44, 10>>

\* The files main is run on: every byte sequence up to MaxFileLen over the
\* alphabet, the two example files, and a path that cannot be opened
InputFiles ==
    {[open |-> TRUE, data |-> d] :
        d \in UNION {[1 .. n -> Alphabet] : n \in 0 .. MaxFileLen}
               \cup {ExampleFile, CatalogFile}}
    \cup {[open |-> FALSE, data |-> <<>>]}

\* The course numbers typed at the "Course number: " prompt: "A" and "AA"
FindNumbers == {<<65>>, <<65, 65>>}

RECURSIVE SeqToBag(_)
SeqToBag(courses) ==
    IF courses = <<>> THEN EmptyBag
    ELSE SetToBag({Head(courses)}) (+) SeqToBag(Tail(courses))

MainInit ==
    /\ file \in InputFiles
    /\ pc = "start"
    /\ num_courses = 0
    /\ m_size = 0
    /\ m_nodes = [k \in {} |-> EmptyNode]
    /\ heap = <<>>
    /\ freed = {}
    /\ fault = "none"
    /\ out = Out("start", <<>>, UINT_MAX, EmptyCourse, <<>>, FALSE, FALSE)
    /\ inserted = EmptyBag
    /\ removes = 0
    /\ loads = 0

\* lines 394-402: validate; on -1 return without a table, otherwise
\* construct `HashTable data (num_courses)`
Validate ==
    /\ pc = "start"
    /\ num_courses' = ValidateFile(file)
    /\ IF num_courses' < 0
       THEN /\ pc' = "exit"
            /\ UNCHANGED <<m_size, m_nodes>>
       ELSE /\ pc' = "menu"
            /\ m_size' = num_courses'
            /\ m_nodes' = [k \in 0 .. (num_courses' - 1) |-> EmptyNode]
    /\ out' = Out("validate", <<>>, UINT_MAX, EmptyCourse, <<>>, FALSE, FALSE)
    /\ UNCHANGED <<file, heap, freed, fault, inserted, removes, loads>>

\* case 1: data.loadFromCSV(path)
Choice1 ==
    /\ pc = "menu"
    /\ loads < MaxLoads
    /\ \E sums \in [1 .. Len(rowsOf(file)) -> Garbage] :
           Becomes(loadFromCSV(CurrentMem, file, sums))
    /\ inserted' = inserted (+) SeqToBag(fileCourses(file))
    /\ loads' = loads + 1
    /\ out' = Out("load", <<>>, UINT_MAX, EmptyCourse, fileCourses(file), FALSE, FALSE)
    /\ UNCHANGED <<file, num_courses, m_size, removes>>

\* case 2: toVector, Quicksort, print
Choice2 ==
    /\ pc = "menu"
    /\ Fresh
    /\ LET sorted == listSorted(CurrentMem) IN
       /\ out' = Out("list", <<>>, UINT_MAX, EmptyCourse, sorted.courses, FALSE, FALSE)
       /\ fault' = sorted.fault
       /\ pc' = IF sorted.fault = "none" THEN pc ELSE "crashed"
    /\ UNCHANGED <<file, num_courses, m_size, m_nodes, heap, freed,
                   inserted, removes, loads>>

\* case 3: data.search(course_number); hash computes `% m_size`, a division
\* by zero when the table was constructed with 0 slots
Choice3(course_number) ==
    /\ pc = "menu"
    /\ Fresh
    /\ IF m_size = 0
       THEN /\ fault' = "division_by_zero"
            /\ pc' = "crashed"
            /\ out' = Out("search", course_number, UINT_MAX, EmptyCourse, <<>>,
                          FALSE, FALSE)
       ELSE /\ \E sum \in Garbage :
                  out' = Out("search", course_number, hash(course_number, sum),
                             search(CurrentMem, course_number, sum), <<>>,
                             course_number \in slotNumbers(CurrentMem, hash(course_number, sum)),
                             course_number \in storedNumbers(CurrentMem))
            /\ UNCHANGED <<pc, fault>>
    /\ UNCHANGED <<file, num_courses, m_size, m_nodes, heap, freed,
                   inserted, removes, loads>>

\* default and the cin.fail() branch: a message, nothing else
ChoiceUnknown ==
    /\ pc = "menu"
    /\ Fresh
    /\ out' = Out("unknown", <<>>, UINT_MAX, EmptyCourse, <<>>, FALSE, FALSE)
    /\ UNCHANGED <<file, pc, num_courses, m_size, m_nodes, heap, freed, fault,
                   inserted, removes, loads>>

\* case 9: the loop ends, main returns and `data` is destroyed
Choice9 ==
    /\ pc = "menu"
    /\ LET mem == destructor(CurrentMem) IN
       /\ m_nodes' = mem.nodes
       /\ heap' = mem.heap
       /\ freed' = mem.freed
       /\ fault' = mem.fault
       /\ pc' = IF mem.fault = "none" THEN "exit" ELSE "crashed"
    /\ out' = Out("destroy", <<>>, UINT_MAX, EmptyCourse, <<>>, FALSE, FALSE)
    /\ UNCHANGED <<file, num_courses, m_size, inserted, removes, loads>>

MainNext ==
    \/ Validate
    \/ Choice1
    \/ Choice2
    \/ \E course_number \in FindNumbers : Choice3(course_number)
    \/ ChoiceUnknown
    \/ Choice9

SpecMain == MainInit /\ [][MainNext]_vars

-----------------------------------------------------------------------------
(* Properties of the table *)

\* The courses inserted so far carry pairwise distinct numbers
DistinctInserted ==
    \A c \in BagToSet(inserted) :
        /\ inserted[c] = 1
        /\ \A d \in BagToSet(inserted) : c.number = d.number => c = d

RECURSIVE CopiesOf(_, _)
CopiesOf(S, number) ==
    IF S = {} THEN 0
    ELSE LET c == CHOOSE x \in S : TRUE IN
         (IF c.number = number THEN inserted[c] ELSE 0) + CopiesOf(S \ {c}, number)

\* How many records inserted so far carry this number
InsertedCopies(number) == CopiesOf(BagToSet(inserted), number)

\* How many records of a sequence carry this number
Copies(courses, number) ==
    Cardinality({i \in 1 .. Len(courses) : courses[i].number = number})

\* a <= b in lexicographic order: a is a prefix of b, or a is smaller at the
\* first position where they differ
LexLeq(a, b) ==
    \/ Len(a) <= Len(b) /\ \A i \in 1 .. Len(a) : a[i] = b[i]
    \/ \E i \in 1 .. Len(a) :
          /\ i <= Len(b)
          /\ a[i] < b[i]
          /\ \A j \in 1 .. (i - 1) : a[j] = b[j]

\* C1: in a table of size >= 1 built by inserts with pairwise distinct
\* numbers, search(n) for an inserted n returns a record whose title and
\* prerequisites are those of the record inserted under n.
SearchReturnsInserted ==
    (out.op = "search" /\ removes = 0 /\ DistinctInserted) =>
        \A c \in BagToSet(inserted) :
            c.number = out.arg =>
                /\ out.course.title = c.title
                /\ out.course.prerequisites = c.prerequisites

\* C2: with pairwise distinct numbers inserted, remove(n) of an inserted n
\* runs to completion and a search(n) made after it returns the not-found
\* result.  Stated for the removes whose hash addressed the slot that holds n
\* (out.hit), whatever the position of n in that slot.
RemoveThenNotFound ==
    (out.op = "remove" /\ out.hit /\ DistinctInserted) =>
        /\ fault = "none"
        /\ \A sum \in Garbage : search(CurrentMem, out.arg, sum) = EmptyCourse

\* C3: over any sequence of inserts and removes followed by destruction,
\* every node allocated by insert is released exactly once: none is released
\* twice or read after its release, and none is left unreleased once the
\* table is destroyed.
NodesReleasedOnce ==
    /\ fault \notin {"double_free", "use_after_free"}
    /\ pc = "destroyed" => freed = 1 .. Len(heap)

\* C5: for a table built by inserts, toVector followed by Quicksort over the
\* full index range yields course numbers in non-decreasing lexicographic
\* order, and every number occurs in it as often as it was inserted.
ListSortedPermutation ==
    (out.op = "list" /\ removes = 0) =>
        /\ fault = "none"
        /\ \A i \in 1 .. (Len(out.courses) - 1) :
               LexLeq(out.courses[i].number, out.courses[i + 1].number)
        /\ \A number \in Numbers \cup {out.courses[i].number : i \in 1 .. Len(out.courses)} :
               Copies(out.courses, number) = InsertedCopies(number)

\* C5 witness: three records, two of them sharing a number, listed in an order
\* that differs from the export order.
ListSortedWitness ==
    /\ out.op = "list"
    /\ Len(out.courses) = 3
    /\ \E number \in Numbers : Copies(out.courses, number) = 2
    /\ out.courses # toVector(CurrentMem)

HashSameSlot ==
    /\ out.op \in {"search", "remove"} => out.key \in 0 .. (m_size - 1)
    /\ out.op = "search" =>
           \A k \in 0 .. (m_size - 1) :
               out.arg \in slotNumbers(CurrentMem, k) => out.key = k
    /\ out.op = "remove" => (out.stored => out.hit)

-----------------------------------------------------------------------------
(* Properties of the validation pass, the load pass and main *)

\* The comma-separated fields of a row as the file format defines them: the
\* texts between consecutive commas, empty ones included
RECURSIVE SplitFields(_)
SplitFields(row) ==
    IF \E i \in 1 .. Len(row) : row[i] = COL_DEL
    THEN LET i == CHOOSE i \in 1 .. Len(row) :
                     /\ row[i] = COL_DEL
                     /\ \A j \in 1 .. (i - 1) : row[j] # COL_DEL
         IN  <<SubSeq(row, 1, i - 1)>> \o SplitFields(SubSeq(row, i + 1, Len(row)))
    ELSE <<row>>

\* The non-empty fields of a row, in order
Tokens(row) == SelectSeq(SplitFields(row), LAMBDA field : field # <<>>)

\* k >= 1 fields, none empty: in particular no trailing comma
AllFieldsPresent(row) ==
    \A i \in 1 .. Len(SplitFields(row)) : SplitFields(row)[i] # <<>>

\* The course numbers of a file: the first token of each row that has one
FileNumbers(data) ==
    {Tokens(getlines(data)[r])[1] :
        r \in {q \in 1 .. Len(getlines(data)) : Tokens(getlines(data)[q]) # <<>>}}

\* Every row is number,title,prereq1,... with no empty field, and every
\* prerequisite is the number of some row
WellFormed(data) ==
    \A r \in 1 .. Len(getlines(data)) :
        LET row == getlines(data)[r] IN
        /\ AllFieldsPresent(row)
        /\ Len(SplitFields(row)) >= 2
        /\ \A i \in 3 .. Len(SplitFields(row)) : SplitFields(row)[i] \in FileNumbers(data)

\* Some row has a prerequisite that is the number of no row
HasDangling(data) ==
    \E r \in 1 .. Len(getlines(data)) :
        \E i \in 3 .. Len(Tokens(getlines(data)[r])) :
            Tokens(getlines(data)[r])[i] \notin FileNumbers(data)

\* C4: for any file content, an empty file and a path that cannot be opened
\* included, and any sequence of menu choices 1, 2 and 3, no operation faults.
MainNeverFaults == fault = "none" /\ pc # "crashed"

\* C6: for every well-formed file ValidateFile returns the number of rows, 2
\* for the example file.
ValidateCountsRows ==
    (pc # "start" /\ file.open /\ WellFormed(file.data)) =>
        num_courses = Len(getlines(file.data))

\* C7: for every file in which some row has a prerequisite that is the
\* number of no row, ValidateFile returns -1 and main constructs no table.
DanglingRejected ==
    (pc # "start" /\ file.open /\ HasDangling(file.data)) =>
        /\ num_courses = -1
        /\ pc = "exit"
        /\ m_size = 0
        /\ DOMAIN m_nodes = {}
        /\ heap = <<>>

\* C10: for every line of k >= 1 non-empty fields with no trailing comma the
\* load pass builds the record with number = field 0, title = field 1 (when
\* k >= 2) and prerequisites = fields 2..k-1, each captured in full.
LoadCapturesFields ==
    out.op = "load" =>
        \A r \in 1 .. Len(rowsOf(file)) :
            LET fields == SplitFields(rowsOf(file)[r]) IN
            AllFieldsPresent(rowsOf(file)[r]) =>
                out.courses[r] =
                    Course(fields[1],
                           IF Len(fields) >= 2 THEN fields[2] ELSE <<>>,
                           SubSeq(fields, 3, Len(fields)))

-----------------------------------------------------------------------------
(* The load pass's treatment of one line, on every line up to MaxLineLen *)

\* The lines: every text of 'A' and ',' up to MaxLineLen, the empty line
\* included
Lines == UNION {[1 .. n -> {65, COL_DEL}] : n \in 0 .. MaxLineLen}

\* No table, no counters
Idle ==
    /\ num_courses = 0
    /\ m_size = 0
    /\ m_nodes = [k \in {} |-> EmptyNode]
    /\ heap = <<>>
    /\ freed = {}
    /\ fault = "none"
    /\ inserted = EmptyBag
    /\ removes = 0
    /\ loads = 0

LineInit ==
    /\ file \in {[open |-> TRUE, data |-> row] : row \in Lines}
    /\ pc = "line"
    /\ out = Out("none", <<>>, UINT_MAX, EmptyCourse, <<>>, FALSE, FALSE)
    /\ Idle

\* The body of loadFromCSV's loop on the line: the record it builds
ParseLine ==
    /\ pc = "line"
    /\ pc' = "parsed"
    /\ out' = Out("parse", file.data, UINT_MAX, rowCourse(file.data), <<>>,
                  FALSE, FALSE)
    /\ UNCHANGED <<file, num_courses, m_size, m_nodes, heap, freed, fault,
                   inserted, removes, loads>>

SpecLine == LineInit /\ [][ParseLine]_vars

\* The record of a line once its empty fields are deleted: number, title and
\* prerequisites are the first, the second and the remaining tokens
RecordOfTokens(tokens) ==
    Course(IF Len(tokens) >= 1 THEN tokens[1] ELSE <<>>,
           IF Len(tokens) >= 2 THEN tokens[2] ELSE <<>>,
           SubSeq(tokens, 3, Len(tokens)))

\* Nothing follows the last comma of the row: the empty line, and the lines
\* that end in a comma
NoOpenField(row) == row = <<>> \/ row[Len(row)] = COL_DEL

\* C11: for every line, the empty line and lines with leading, consecutive or
\* trailing commas included, the load pass builds the record obtained by
\* deleting all empty fields first, and no prerequisite is the empty string.
\* Stated on the lines in which no text follows the last comma; the text
\* after the last comma is the subject of C10.
LoadSkipsEmptyFields ==
    (out.op = "parse" /\ NoOpenField(file.data)) =>
        /\ out.course = RecordOfTokens(Tokens(file.data))
        /\ \A i \in 1 .. Len(out.course.prerequisites) :
               out.course.prerequisites[i] # <<>>

-----------------------------------------------------------------------------
(* Properties of find, uniqueness and the shape of the slots *)

\* How menu choice 3 decides that search found nothing
notFound(result) == result.title = <<>>

\* C12: find reports not-found for a number n if and only if no stored
\* record has number n; a stored record with the empty title is never
\* reported as not found.  Stated for the searches that looked in a slot
\* holding n whenever n is stored; which slot is looked in is the subject of
\* C9.
NotFoundIffAbsent ==
    (out.op = "search" /\ fault = "none" /\ (out.stored => out.hit)) =>
        (notFound(out.course) <=> ~out.stored)

\* C13 as stated: after every completed insert, remove or load pass no course
\* number is held by more than one record of the table, also after insert is
\* called twice with the same number.
UniqueNumbers ==
    (pc = "live" /\ fault = "none") =>
        \A n \in Numbers : Copies(toVector(CurrentMem), n) <= 1

\* C13, amended: after every completed insert or remove, each course number
\* is held by at most as many records as insert calls were made with it, so
\* by at most one record when the inserted numbers are pairwise distinct.
NoMoreCopiesThanInserts ==
    (pc = "live" /\ fault = "none") =>
        /\ \A n \in Numbers :
               Copies(toVector(CurrentMem), n) <= InsertedCopies(n)
        /\ DistinctInserted =>
               \A n \in Numbers : Copies(toVector(CurrentMem), n) <= 1

\* Two records with distinct numbers shared a slot and the head was removed:
\* the chain record is now the head and the only record
PromotedWitness ==
    /\ out.op = "remove"
    /\ out.hit
    /\ fault = "none"
    /\ DistinctInserted
    /\ BagCardinality(inserted) = 2
    /\ Len(heap) = 1
    /\ Len(toVector(CurrentMem)) = 1

-----------------------------------------------------------------------------
(* The one-slot table: every record lands in slot 0, so chains grow to     *)
(* MaxChain - 1 nodes                                                       *)

\* The records of the one-slot table: two with the number "A", one with "B"
ChainCourses == {c \in Courses : c.number \in {<<65>>, <<66>>}}

ChainInit ==
    /\ TableInit
    /\ m_size = 1

ChainInsert(course, sum) ==
    /\ BagCardinality(inserted) < MaxChain
    /\ InsertCall(course, sum)

\* remove; `out.courses` keeps what toVector returned before the call
ChainRemove(course_number, sum) ==
    /\ pc = "live"
    /\ removes < MaxRemoves
    /\ Becomes(remove(CurrentMem, course_number, sum))
    /\ removes' = removes + 1
    /\ out' = Out("remove", course_number, hash(course_number, sum), EmptyCourse,
                  toVector(CurrentMem),
                  course_number \in slotNumbers(CurrentMem, hash(course_number, sum)),
                  course_number \in storedNumbers(CurrentMem))
    /\ UNCHANGED <<file, num_courses, m_size, inserted, loads>>

ChainNext ==
    \/ \E course \in ChainCourses, sum \in Garbage : ChainInsert(course, sum)
    \/ \E course_number \in {<<65>>, <<66>>}, sum \in Garbage :
           ChainRemove(course_number, sum)

SpecChain == ChainInit /\ [][ChainNext]_vars

\* A sequence of records without its first record of this number
RECURSIVE WithoutFirst(_, _)
WithoutFirst(courses, number) ==
    IF courses = <<>> THEN <<>>
    ELSE IF Head(courses).number = number THEN Tail(courses)
         ELSE <<Head(courses)>> \o WithoutFirst(Tail(courses), number)

\* C14: when a slot holds several records with the number n, remove(n)
\* removes exactly one record, the first match in head-then-chain order, and
\* every other record of the slot, later records with the number n included,
\* remains in its place.  Stated for the removes that run to completion; the
\* remove that faults is the subject of C2.
RemovesExactlyFirstMatch ==
    (out.op = "remove" /\ fault = "none" /\ Copies(out.courses, out.arg) >= 2) =>
        toVector(CurrentMem) = WithoutFirst(out.courses, out.arg)

RECURSIVE HeldFrom(_, _)
HeldFrom(mem, p) ==
    IF p = NULL THEN <<>>
    ELSE <<mem.heap[p].course>> \o HeldFrom(mem, mem.heap[p].next)

Held(mem, k) ==
    IF mem.nodes[k].key = UINT_MAX THEN <<>>
    ELSE <<mem.nodes[k].course>> \o HeldFrom(mem, mem.nodes[k].next)

\* The records of slots 0 .. k-1, slot after slot
RECURSIVE HeldBelow(_, _)
HeldBelow(mem, k) ==
    IF k = 0 THEN <<>> ELSE HeldBelow(mem, k - 1) \o Held(mem, k - 1)

\* s is t with some of its elements left out, the others in t's order
RECURSIVE IsSubsequence(_, _)
IsSubsequence(s, t) ==
    IF s = <<>> THEN TRUE
    ELSE IF t = <<>> THEN FALSE
    ELSE IF Head(s) = Head(t) THEN IsSubsequence(Tail(s), Tail(t))
    ELSE IsSubsequence(s, Tail(t))

-----------------------------------------------------------------------------
(* Properties of repeated load passes, the hash, Quicksort and the         *)
(* prerequisites of a loaded table                                          *)

\* The rows of the file carry pairwise distinct numbers
DistinctRows(f) ==
    \A r, q \in 1 .. Len(fileCourses(f)) :
        fileCourses(f)[r].number = fileCourses(f)[q].number => r = q

\* C17: after k >= 1 load passes over the same validated file of n rows with
\* distinct numbers and no remove in between, toVector returns k*n records in
\* which the record the load pass builds from each row appears exactly k
\* times, and the table still has the number of slots it was constructed
\* with.
LoadsAppend ==
    (pc = "menu" /\ loads >= 1 /\ fault = "none" /\ DistinctRows(file)) =>
        LET rows    == fileCourses(file)
            courses == toVector(CurrentMem)
        IN  /\ Len(courses) = loads * Len(rows)
            /\ \A r \in 1 .. Len(rows) :
                   Cardinality({i \in 1 .. Len(courses) : courses[i] = rows[r]}) = loads
            /\ m_size = num_courses
            /\ DOMAIN m_nodes = 0 .. (num_courses - 1)

\* Two load passes over the two-row catalog: four records
LoadedTwice ==
    /\ out.op = "load"
    /\ loads = 2
    /\ file.data = CatalogFile
    /\ fault = "none"
    /\ Len(toVector(CurrentMem)) = 4

\* The keys given to hash alone: every text of 'A' and 'B' up to MaxKeyLen
HashKeys == UNION {[1 .. n -> {65, 66}] : n \in 0 .. MaxKeyLen}

HashInit ==
    /\ m_size \in 1 .. MaxHashSize
    /\ m_nodes = [k \in 0 .. (m_size - 1) |-> EmptyNode]
    /\ out \in {[op |-> "key", arg |-> key] : key \in HashKeys}
    /\ pc = "live"
    /\ file = [open |-> FALSE, data |-> <<>>]
    /\ num_courses = 0
    /\ heap = <<>>
    /\ freed = {}
    /\ fault = "none"
    /\ inserted = EmptyBag
    /\ removes = 0
    /\ loads = 0

\* hash(key), the accumulator starting from the value `sum` it happens to hold
HashCall(sum) ==
    /\ out.op = "key"
    /\ out' = [op |-> "hash", arg |-> out.arg, sum |-> sum,
               key |-> hash(out.arg, sum)]
    /\ UNCHANGED <<file, pc, num_courses, m_size, m_nodes, heap, freed, fault,
                   inserted, removes, loads>>

SpecHash == HashInit /\ [][\E sum \in Garbage : HashCall(sum)]_vars

\* b^e mod m, no intermediate value above m * b
RECURSIVE PowMod(_, _, _)
PowMod(b, e, m) == IF e = 0 THEN 1 % m ELSE (b * PowMod(b, e - 1, m)) % m

\* (sum over positions i of ((code(key[i]) * 31^i) mod m)) mod m in exact
\* integer arithmetic from an accumulator of 0; (c * 31^i) mod m is computed
\* as ((c mod m) * (31^i mod m)) mod m, which is the same number
RECURSIVE ExactSum(_, _, _)
ExactSum(key, i, m) ==
    IF i >= Len(key) THEN 0
    ELSE (((key[i + 1] % m) * PowMod(31, i, m)) % m) + ExactSum(key, i + 1, m)

ExactHash(key, m) == ExactSum(key, 0, m) % m

\* C18: for every course number of bounded length, numbers of 6 or more
\* characters included, and every table size >= 1, hash(number) equals the
\* exact-arithmetic value; the 32-bit width of 31^i and of the product
\* code * 31^i does not change the result.  Stated for the calls whose
\* accumulator starts at 0; that it need not is the subject of C9.
HashIsExact ==
    (out.op = "hash" /\ out.sum = 0) => out.key = ExactHash(out.arg, m_size)

\* The sequences given to Quicksort alone: every sequence of records with the
\* numbers "A", "B" and "AB" up to MaxSortLen, the empty one included
SortInputs ==
    UNION {[1 .. n -> {Course(number, <<84>>, <<>>) : number \in Numbers}] :
               n \in 0 .. MaxSortLen}

SortInit ==
    /\ out \in {[op |-> "input", courses |-> courses] : courses \in SortInputs}
    /\ pc = "sort"
    /\ file = [open |-> FALSE, data |-> <<>>]
    /\ Idle

\* One partition step of a call Quicksort(low, high), 0 <= low < high <= size-1
PartitionCall(low, high) ==
    /\ out.op = "input"
    /\ 0 <= low /\ low < high /\ high <= Len(out.courses) - 1
    /\ out' = [op |-> "partition", courses |-> out.courses, low |-> low,
               high |-> high, result |-> partition(out.courses, low, high)]
    /\ UNCHANGED <<file, pc, num_courses, m_size, m_nodes, heap, freed, fault,
                   inserted, removes, loads>>

\* main's call: Quicksort(&courses, 0, courses.size() - 1)
QuicksortCall ==
    /\ out.op = "input"
    /\ out' = [op |-> "quicksort", courses |-> out.courses,
               result |-> Quicksort(out.courses, 0, Len(out.courses) - 1)]
    /\ UNCHANGED <<file, pc, num_courses, m_size, m_nodes, heap, freed, fault,
                   inserted, removes, loads>>

SortNext ==
    \/ \E low, high \in 0 .. (MaxSortLen - 1) : PartitionCall(low, high)
    \/ QuicksortCall

SpecSort == SortInit /\ [][SortNext]_vars

\* C19: for every sequence of records, duplicate numbers allowed, and every
\* call with 0 <= low < high <= size-1, the partition step reads and writes
\* only indices in [low, high] (run on the slice [low, high] alone, where
\* every other index is out of range, it does not fault and gives the same
\* result), returns h with low <= h < high, and leaves every number in
\* [low, h] less than or equal to every number in [h+1, high]; Quicksort
\* returns without a fault, also for the empty sequence with low = 0 and
\* high = -1.
PartitionSplitsRange ==
    /\ out.op = "partition" =>
           LET slice == SubSeq(out.courses, out.low + 1, out.high + 1)
               alone == partition(slice, 0, out.high - out.low)
               h     == out.result.high
           IN  /\ out.result.fault = "none"
               /\ alone.fault = "none"
               /\ out.result.courses =
                      SubSeq(out.courses, 1, out.low) \o alone.courses
                          \o SubSeq(out.courses, out.high + 2, Len(out.courses))
               /\ h = out.low + alone.high
               /\ out.low <= h /\ h < out.high
               /\ \A i \in out.low .. h : \A j \in (h + 1) .. out.high :
                      LexLeq(out.result.courses[i + 1].number,
                             out.result.courses[j + 1].number)
    /\ out.op = "quicksort" =>
           /\ out.result.fault = "none"
           /\ Len(out.result.courses) = Len(out.courses)

\* A partition step that swapped: the range holds a larger number before a
\* smaller one and a duplicate
PartitionSwapped ==
    /\ out.op = "partition"
    /\ out.high - out.low = 3
    /\ out.result.courses # out.courses
    /\ \E i, j \in 1 .. Len(out.courses) :
           i # j /\ out.courses[i].number = out.courses[j].number

\* C20: if ValidateFile accepts a file and one load pass over the same file
\* is made into a table sized to the returned row count, then for every
\* record returned by toVector and every prerequisite p of it, search(p)
\* returns a stored record whose number is p.
PrerequisitesResolve ==
    (pc = "menu" /\ loads = 1 /\ fault = "none") =>
        \A i \in 1 .. Len(toVector(CurrentMem)) :
            LET course == toVector(CurrentMem)[i] IN
            \A j \in 1 .. Len(course.prerequisites) :
                \A sum \in Garbage :
                    LET found == search(CurrentMem, course.prerequisites[j], sum)
                    IN  /\ found.number = course.prerequisites[j]
                        /\ \E k \in 1 .. Len(toVector(CurrentMem)) :
                               toVector(CurrentMem)[k] = found

====
